---- MODULE Spec2Model ----
(***************************************************************************)
(* DBConnector (src/db/db_connector.py): lifecycle of the port-forward     *)
(* process, the primary connection and the pool, and the query paths.      *)
(* The connector is single-threaded: one operation runs at a time, pc is   *)
(* its position and stack the return labels of the calls in progress.      *)
(* The cluster CLI, the operating system and the database are the          *)
(* environment: every call to them succeeds or fails nondeterministically. *)
(***************************************************************************)
EXTENDS Integers, Sequences, FiniteSets, TLC

\* ---- bounds of the model ----
MaxRetriesBound == 2      \* DBConnector.max_retries ranges over 0..MaxRetriesBound
MaxRqRetries == 2         \* run_query's max_retries argument ranges over 0..MaxRqRetries
NumPorts == 2             \* number of candidate local ports
MaxConns == 2             \* primary connections the database holds open at once
MaxRows == 4              \* batch_insert called directly: 0..MaxRows rows
MaxBatch == 3             \* batch_insert called directly: batch_size 1..MaxBatch
MaxOps == 2               \* calls the caller makes between activation and deactivation
MaxPreparedOps == 3       \* the same, when every call is reconnect or a prepared run_query
MaxFetchRows == 2         \* a statement produces 0..MaxFetchRows rows

\* ---- program constants ----
PortLo == 30000
CIPort == 31021
BulkThreshold == 10
DefaultBatchSize == 1000
DefaultRetries == 3

Ports == PortLo .. (PortLo + NumPorts - 1)

None == 0                 \* Python None for the three handles

NoPort == 0               \* the port of an object nothing reads the port of

VARIABLES
  is_ci,                  \* self.is_ci
  max_retries,            \* self.max_retries
  local_port,             \* self.local_port
  port_arg,               \* the local_port argument of __init__, None when omitted
  connection,             \* self.connection: index into conns, or None
  connection_pool,        \* self.connection_pool: index into pools, or None
  port_forward_process,   \* self.port_forward_process: index into procs, or None
  prepared_statements,    \* self.prepared_statements
  session_prepared,       \* names the server holds for the session of self.connection
  conns,                  \* psycopg2 connections the connector opened: [open, port]
  pools,                  \* ThreadedConnectionPools it created: [closed, port]
  procs,                  \* port-forward Popens it spawned: [alive, port]
  phase,                  \* "new", "active", "failed" (activation raised), "closed"
  ops,                    \* calls made since activation
  op,                     \* the operation the caller invoked, "none" when idle
  pc,                     \* position inside the operation
  stack,                  \* return labels of the calls in progress
  pf_attempt,             \* login_attempt / attempt of port_forward_postgres
  pf_ports,               \* the ports step 3 of port_forward_postgres has tried
  en_attempt,             \* attempt of __enter__
  exit_log,               \* cleanup steps __exit__ has carried out, in order
  rq,                     \* run_query: its arguments and locals
  bi,                     \* batch_insert: its arguments and locals
  db,                     \* commits and rollbacks issued on the primary connection
  lease,                  \* the connection get_connection() handed out: "none", "held", "lost"
  txn,                    \* transaction(): its locals and what it did on its connection
  result,                 \* how the last operation ended: [op, status, exc, value]
  fx,                     \* create_owner / delete_owner: the closures' cells and the statements run
  api,                    \* BaseApi.request: its arguments, the outgoing request, the outcome
  esc                     \* escape_single_quotes: its argument and what it returned

vars == << is_ci, max_retries, local_port, port_arg, connection, connection_pool,
           port_forward_process, prepared_statements, session_prepared,
           conns, pools, procs, phase, ops, op, pc, stack, pf_attempt, pf_ports, en_attempt,
           exit_log, rq,
           bi,
           db, lease, txn, result, fx, api, esc >>

connectorVars == << is_ci, max_retries, ops >>

registryVars == << prepared_statements, session_prepared >>

callVars == << rq, bi, db >>

suiteVars == << fx, api, esc >>

vars_connector ==
  << is_ci, max_retries, local_port, port_arg, connection, connection_pool,
     port_forward_process, prepared_statements, session_prepared,
     conns, pools, procs, phase, ops, op, pc, stack, pf_attempt, pf_ports,
     en_attempt, exit_log, rq, bi, db, lease, txn, result >>

scopeVars == << lease, txn >>

NoResult == [op |-> "none", status |-> "none", exc |-> "none", value |-> "none"]

Ok(o, v) == [op |-> o, status |-> "ok", exc |-> "none", value |-> v]

Raised(o, e) == [op |-> o, status |-> "raised", exc |-> e, value |-> "none"]

NewConn(port) == [open |-> TRUE, port |-> port]

NewPool(port) == [closed |-> FALSE, port |-> port]

\* ---- arguments of run_query ----
\* A statement is known by what the code reads of it: its first word, whether
\* it contains VALUES, whether executing it yields a result description, and
\* its text (the key of the prepared-statement name).
Query(t, v, r, x) == [qtype |-> t, values |-> v, returning |-> r, text |-> x]

QueryKinds ==
  { Query("select", FALSE, FALSE, "sel"),
    Query("insert", TRUE, FALSE, "ins"),
    Query("insert", TRUE, TRUE, "insret"),
    Query("update", FALSE, FALSE, "upd"),
    Query("delete", FALSE, FALSE, "del"),
    Query("create", FALSE, FALSE, "ddl") }

InsertValues == { q \in QueryKinds : q.qtype = "insert" /\ q.values }

PreparedKinds == { q \in QueryKinds : q.text \in {"ins", "insret"} }

NoParams == -1            \* params is None; otherwise len(params)

Call(q, n, up, r, ok) ==
  [q |-> q, nparams |-> n, use_prepared |-> up, retries |-> r, parsable |-> ok]

\* The retry loop does not read the statement: max_retries varies for one
\* statement that returns rows and one that modifies.
RetriedKinds == { q \in QueryKinds : q.text \in {"sel", "upd"} }

StandardCalls ==
  { Call(q, NoParams, FALSE, r, TRUE) : q \in RetriedKinds, r \in 0..MaxRqRetries }

\* params without use_prepared, and use_prepared without params: both run on
\* the standard path
ParamCalls ==
  { Call(q, 1, FALSE, 1, TRUE) : q \in QueryKinds }
  \cup { Call(q, NoParams, TRUE, 1, TRUE) : q \in RetriedKinds }

PreparedCalls ==
  { Call(q, n, TRUE, DefaultRetries, TRUE) : q \in PreparedKinds, n \in {0, 1} }

BulkKinds == { q \in InsertValues : ~q.returning }

\* INSERT..VALUES with a list of rows: one chunk, two chunks, and the largest
\* list that is not redirected
BulkCalls ==
  { Call(q, n, up, 1, ok) :
      q \in BulkKinds,
      n \in {BulkThreshold + 1, DefaultBatchSize + 1},
      up \in BOOLEAN, ok \in BOOLEAN }
  \cup { Call(q, BulkThreshold, up, 1, TRUE) : q \in BulkKinds, up \in BOOLEAN }

RqCalls == StandardCalls \cup ParamCalls \cup PreparedCalls \cup BulkCalls

\* A statement that yields rows and is not INSERT/UPDATE/DELETE, on the
\* standard path (without and with params) and on the prepared path
FetchCalls ==
  { Call(q, n, up, 1, TRUE) :
      q \in { k \in QueryKinds : k.qtype = "select" },
      n \in {NoParams, 0, 1}, up \in BOOLEAN }

NoCall == Call(Query("none", FALSE, FALSE, "none"), NoParams, FALSE, 0, TRUE)

\* What run_query hands back: None, one column-name-to-value mapping, or a
\* list of them; rows are the numbers, in cursor order, of the rows mapped.
NoValue == [kind |-> "none", rows |-> << >>]

FetchModes == {"one", "all"}

\* fetch is not read before the result is fetched: its value is drawn there.
\* produced is the number of rows the cursor holds then, -1 before.
NoQuery ==
  [call |-> NoCall, path |-> "none", attempt |-> 0, attempts |-> 0,
   sleeps |-> << >>, loop_reconnects |-> 0, saw_other |-> FALSE,
   prepares |-> 0, executes |-> 0,
   fetch |-> "none", produced |-> -1, returned |-> NoValue]

NoBatch ==
  [n |-> 0, b |-> 1, i |-> 0, executed |-> << >>, committed |-> << >>,
   rolled_back |-> << >>]

NoTx == [commits |-> 0, rollbacks |-> 0]

\* transaction(): conn is the connection it captured at entry, told by what
\* became of it: "primary" while self.connection still names it, "open" or
\* "closed" once a reconnect has put another connection in its place.
\* level is the isolation level of self.connection: "before" is
\* old_isolation_level, whatever value that is, "read_committed" the level
\* line 368 sets, "fresh" the level of a connection psycopg2.connect has
\* just returned.
NoScope ==
  [open |-> FALSE, conn |-> "none", level |-> "before",
   block_raised |-> FALSE, commits |-> 0, rollbacks |-> 0,
   restored |-> FALSE]

\* The caller is inside a get_connection() or transaction() scope; it holds
\* one scope at a time.
InScope == lease # "none" \/ txn.open

\* ---- the objects the connector started ----
\* The object a handle names is the last of its sequence; the ones before it
\* are those the handle named earlier.  An earlier object that is closed can
\* no longer be told from one that never existed and is dropped when the
\* handle is given a new object.
AliveProcs == { i \in 1..Len(procs) : procs[i].alive }

OpenConns == { i \in 1..Len(conns) : conns[i].open }

OpenPools == { i \in 1..Len(pools) : ~pools[i].closed }

\* The argument is read by __init__ alone; once the caller has the outcome
\* of activation nothing can depend on it and its value is no longer kept.
Forgotten == -1

\* local_port or self.get_random_available_port(): the probe opens one
\* socket per candidate port and connects it to localhost
constructor_sockets == IF port_arg = None THEN 1 ELSE 0

\* ---- the suite around the connector: fixtures, BaseApi, the escaping ----
\* Each is idle while the connector is exercised.
NoFixture ==
  [stage |-> "none", calls |-> 0, inserted |-> {}, created |-> None,
   owner |-> None, deleted |-> {}, last |-> "none"]

NoRequest ==
  [stage |-> "none", method |-> "GET", data |-> "absent", response_code |-> None,
   json |-> "absent", body |-> "absent", status |-> 0, exc |-> "none"]
\* status: 0 until the HTTP call is made, -1 when the call itself raised

NoEscape == [stage |-> "none", text |-> << >>, out |-> << >>, again |-> << >>]

\* __init__: no handle, empty registry; local_port is given or probed.
InitConnector ==
  /\ is_ci \in BOOLEAN
  /\ max_retries \in 0..MaxRetriesBound
  /\ port_arg \in Ports \cup {None}
  /\ local_port \in IF port_arg = None THEN Ports ELSE {port_arg}
  /\ connection = None
  /\ connection_pool = None
  /\ port_forward_process = None
  /\ prepared_statements = {}
  /\ session_prepared = {}
  /\ conns = << >>
  /\ pools = << >>
  /\ procs = << >>
  /\ phase = "new"
  /\ ops = 0
  /\ op = "none"
  /\ pc = "idle"
  /\ stack = << >>
  /\ pf_attempt = 0
  /\ pf_ports = << >>
  /\ en_attempt = 0
  /\ exit_log = << >>
  /\ rq = NoQuery
  /\ bi = NoBatch
  /\ db = NoTx
  /\ lease = "none"
  /\ txn = NoScope
  /\ result = NoResult

Init ==
  /\ InitConnector
  /\ fx = NoFixture
  /\ api = NoRequest
  /\ esc = NoEscape

\* An exception that no frame of the operation in progress catches.
phase_after_raise ==
  IF op = "enter" THEN "failed" ELSE IF op = "exit" THEN "closed" ELSE phase

Propagate(e) ==
  /\ pc' = "done"
  /\ stack' = << >>
  /\ result' = Raised(op, e)
  /\ phase' = phase_after_raise
  /\ op' = "none"

\* psycopg2.connect / the pool's first connection reach the server only
\* through the fixed CI endpoint or through a live tunnel on that port.
Reachable(port) ==
  \/ is_ci
  \/ \E i \in AliveProcs : procs[i].port = port

\* the endpoint of a connector that forwards in both modes
target_port_forwarded == local_port

\* connect_to_postgres / create_connection_pool: the port they connect to
target_port == IF is_ci THEN CIPort ELSE local_port

is_port_forwarding_running ==
  port_forward_process # None /\ procs[port_forward_process].alive

\* Popen.terminate()
terminate(ps, i) == [ps EXCEPT ![i] = [alive |-> FALSE, port |-> NoPort]]

\* connection.close()
close(cs, i) == [cs EXCEPT ![i] = [open |-> FALSE, port |-> NoPort]]

\* pool.closeall(); raises PoolError on a pool that is already closed.
closeall(ps, i) == [ps EXCEPT ![i] = [closed |-> TRUE, port |-> NoPort]]

\* self.connection = <a new connection>.  The connections the handle named
\* before stay open; the code keeps no reference to them and nothing reads
\* where they were opened against.
Opened(cs, c) ==
  LET earlier == SelectSeq(cs, LAMBDA x : x.open)
  IN Append([i \in 1..Len(earlier) |-> [open |-> TRUE, port |-> NoPort]], c)

\* self.connection_pool = <a new pool>
Pooled(ps, p) == Append(SelectSeq(ps, LAMBDA x : ~x.closed), p)

\* self.port_forward_process = <a new process>
Spawned(ps, p) == Append(SelectSeq(ps, LAMBDA x : x.alive), p)

\* psycopg2.connect succeeds only while the server has a session to give
has_session == Cardinality(OpenConns) < MaxConns

\* get_random_available_port: a port nothing is listening on.
free_ports == Ports \ { procs[i].port : i \in AliveProcs }

\* Outcomes of process.poll() after the settle wait.  A process found exited
\* was never seen alive by the connector and is not kept in procs.
survives == BOOLEAN

\* ---- port_forward_postgres ----
\* Step 2: one `oc login` attempt.
PfLogin ==
  /\ pc = "pf_login"
  /\ pf_attempt <= max_retries
  /\ \E login_ok \in BOOLEAN :
       IF login_ok
         THEN pc' = "pf_spawn" /\ pf_attempt' = 1
         ELSE pc' = pc /\ pf_attempt' = pf_attempt + 1
  /\ pf_ports' = pf_ports
  /\ UNCHANGED << suiteVars, connectorVars, port_arg, scopeVars, callVars, local_port, connection, connection_pool,
                  port_forward_process, registryVars, conns, pools,
                  procs, phase, op, stack, en_attempt, exit_log, result >>

\* login never succeeded: raise Exception(f"... - {login_process.stderr}").
\* When the loop made no attempt login_process is still None and building
\* the message raises AttributeError instead.
PfLoginFailed ==
  /\ pc = "pf_login"
  /\ pf_attempt > max_retries
  /\ Propagate(IF max_retries = 0 THEN "AttributeError" ELSE "LoginFailed")
  /\ UNCHANGED << suiteVars, connectorVars, port_arg, scopeVars, callVars, local_port, connection, connection_pool,
                  port_forward_process, registryVars, conns, pools,
                  procs, pf_attempt, pf_ports, en_attempt, exit_log >>

\* Step 3: one port-forward attempt: pick a port, spawn, wait, poll.
\* On success the caller stores the returned process in port_forward_process.
PfSpawn ==
  /\ pc = "pf_spawn"
  /\ pf_attempt <= max_retries
  /\ \E port \in free_ports, stays_alive \in survives :
       /\ local_port' = port
       /\ IF stays_alive
            THEN /\ procs' = Spawned(procs, [alive |-> TRUE, port |-> port])
                 /\ port_forward_process' = Len(procs')
                 /\ pc' = Head(stack)
                 /\ stack' = Tail(stack)
                 /\ pf_attempt' = 0
                 /\ pf_ports' = << >>
            ELSE /\ procs' = procs
                 /\ port_forward_process' = port_forward_process
                 /\ pc' = pc
                 /\ stack' = stack
                 /\ pf_attempt' = pf_attempt + 1
                 /\ pf_ports' = Append(pf_ports, port)
  /\ UNCHANGED << suiteVars, connectorVars, port_arg, scopeVars, callVars, connection, connection_pool,
                  registryVars, conns, pools, phase, op, en_attempt,
                  exit_log, result >>

\* port-forwarding never stabilised
PfSpawnFailed ==
  /\ pc = "pf_spawn"
  /\ pf_attempt > max_retries
  /\ Propagate("PortForwardFailed")
  /\ UNCHANGED << suiteVars, connectorVars, port_arg, scopeVars, callVars, local_port, connection, connection_pool,
                  port_forward_process, registryVars, conns, pools,
                  procs, pf_attempt, pf_ports, en_attempt, exit_log >>

\* ---- __enter__ ----
EnterStart ==
  /\ pc = "idle"
  /\ phase = "new"
  /\ op' = "enter"
  /\ result' = NoResult
  /\ en_attempt' = 1
  /\ IF ~is_ci
       THEN pc' = "pf_login" /\ stack' = << "en_loop" >> /\ pf_attempt' = 1
       ELSE pc' = "en_loop" /\ stack' = stack /\ pf_attempt' = pf_attempt
  /\ pf_ports' = pf_ports
  /\ UNCHANGED << suiteVars, connectorVars, port_arg, scopeVars, callVars, local_port, connection, connection_pool,
                  port_forward_process, registryVars, conns, pools,
                  procs, phase, exit_log >>

\* One pass of the retry loop: tunnel check, connect_to_postgres,
\* create_connection_pool; break on success, sleep or raise on failure.
EnterAttempt ==
  /\ pc = "en_loop"
  /\ en_attempt <= max_retries
  /\ \E conn_ok, pool_ok \in BOOLEAN :
       LET tunnel_ok == is_port_forwarding_running \/ is_ci
           connected == /\ tunnel_ok
                        /\ conn_ok
                        /\ Reachable(target_port)
                        /\ has_session
           pooled    == connected /\ pool_ok
       IN
       /\ IF connected
            THEN /\ conns' = Opened(conns, NewConn(target_port))
                 /\ connection' = Len(conns')
                 /\ session_prepared' = {}
            ELSE UNCHANGED << conns, connection, session_prepared >>
       /\ IF pooled
            THEN /\ pools' = Pooled(pools, NewPool(target_port))
                 /\ connection_pool' = Len(pools')
                 /\ pc' = "done"
                 /\ op' = "none"
                 /\ phase' = "active"
                 /\ result' = Ok("enter", "self")
                 /\ en_attempt' = 0
                 /\ stack' = stack
            ELSE /\ UNCHANGED << pools, connection_pool >>
                 /\ IF en_attempt < max_retries
                      THEN /\ en_attempt' = en_attempt + 1
                           /\ UNCHANGED << pc, op, phase, result, stack >>
                      ELSE /\ Propagate("ConnectFailed")
                           /\ en_attempt' = 0
  /\ UNCHANGED << suiteVars, connectorVars, port_arg, scopeVars, callVars, local_port,
                  port_forward_process, prepared_statements, procs,
                  pf_attempt, pf_ports, exit_log >>

\* range(1, max_retries + 1) is empty: the loop body never runs.
EnterNoAttempt ==
  /\ pc = "en_loop"
  /\ en_attempt > max_retries
  /\ pc' = "done"
  /\ op' = "none"
  /\ phase' = "active"
  /\ result' = Ok("enter", "self")
  /\ en_attempt' = 0
  /\ UNCHANGED << suiteVars, connectorVars, port_arg, scopeVars, callVars, local_port, connection, connection_pool,
                  port_forward_process, registryVars, conns, pools,
                  procs, stack, pf_attempt, pf_ports, exit_log >>

\* ---- __exit__ ----
\* The three blocks run in sequence with no handler around any of them.
ExitClosePool ==
  /\ pc = "idle"
  /\ phase = "active"
  /\ ~InScope
  /\ IF connection_pool # None /\ pools[connection_pool].closed
       THEN /\ pc' = "done"
            /\ op' = "none"
            /\ phase' = "closed"
            /\ result' = Raised("exit", "PoolError")
            /\ exit_log' = << >>
            /\ pools' = pools
       ELSE /\ pc' = "exit_conn"
            /\ op' = "exit"
            /\ phase' = phase
            /\ result' = NoResult
            /\ IF connection_pool # None
                 THEN /\ pools' = closeall(pools, connection_pool)
                      /\ exit_log' = << "pool" >>
                 ELSE /\ pools' = pools
                      /\ exit_log' = << >>
  /\ stack' = stack
  /\ UNCHANGED << suiteVars, connectorVars, port_arg, scopeVars, callVars, local_port, connection, connection_pool,
                  port_forward_process, registryVars, conns, procs,
                  pf_attempt, pf_ports, en_attempt >>

ExitCloseConnection ==
  /\ pc = "exit_conn"
  /\ pc' = "exit_tunnel"
  /\ IF connection # None
       THEN /\ conns' = close(conns, connection)
            /\ exit_log' = Append(exit_log, "connection")
       ELSE UNCHANGED << conns, exit_log >>
  /\ UNCHANGED << suiteVars, connectorVars, port_arg, scopeVars, callVars, local_port, connection, connection_pool,
                  port_forward_process, registryVars, pools, procs,
                  phase, op, stack, pf_attempt, pf_ports, en_attempt, result >>

\* __exit__ whose last block leaves the port-forward process running
ExitTerminate_KeepsTunnel ==
  /\ pc = "exit_tunnel"
  /\ pc' = "done"
  /\ op' = "none"
  /\ phase' = "closed"
  /\ result' = Ok("exit", "none")
  /\ UNCHANGED << suiteVars, connectorVars, port_arg, scopeVars, callVars, local_port, connection,
                  connection_pool, port_forward_process, registryVars, conns,
                  pools, procs, stack, pf_attempt, pf_ports, en_attempt, exit_log >>

ExitTerminate ==
  /\ pc = "exit_tunnel"
  /\ pc' = "done"
  /\ op' = "none"
  /\ phase' = "closed"
  /\ result' = Ok("exit", "none")
  /\ IF port_forward_process # None /\ ~is_ci
       THEN /\ procs' = terminate(procs, port_forward_process)
            /\ exit_log' = Append(exit_log, "tunnel")
       ELSE UNCHANGED << procs, exit_log >>
  /\ UNCHANGED << suiteVars, connectorVars, port_arg, scopeVars, callVars, local_port, connection, connection_pool,
                  port_forward_process, registryVars, conns, pools,
                  stack, pf_attempt, pf_ports, en_attempt >>

\* ---- reconnect ----
\* Where a finished call goes back to: "top" is the caller of the connector.
ReturnTo(r, o, v) ==
  /\ pc' = IF r = "top" THEN "done" ELSE r
  /\ stack' = Tail(stack)
  /\ op' = IF r = "top" THEN "none" ELSE op
  /\ result' = IF r = "top" THEN Ok(o, v) ELSE result
  /\ phase' = phase

\* reconnect() called by the caller, who makes at most `limit` calls
ReconnectWithin(limit) ==
  /\ pc = "idle"
  /\ phase = "active"
  /\ ops < limit
  /\ ops' = ops + 1
  /\ op' = "reconnect"
  /\ pc' = "rc_start"
  /\ stack' = << "top" >>
  /\ result' = NoResult
  /\ UNCHANGED << suiteVars, is_ci, max_retries, port_arg, scopeVars, callVars, local_port, connection, connection_pool,
                  port_forward_process, registryVars, conns, pools,
                  procs, phase, pf_attempt, pf_ports, en_attempt, exit_log >>

ReconnectCall == ReconnectWithin(MaxOps)

\* Terminate the previous port-forward process, then restart it.
RcStart ==
  /\ pc = "rc_start"
  /\ procs' = IF port_forward_process # None /\ ~is_ci
                THEN terminate(procs, port_forward_process)
                ELSE procs
  /\ IF ~is_ci
       THEN /\ pc' = "pf_login"
            /\ stack' = << "rc_connect" >> \o stack
            /\ pf_attempt' = 1
       ELSE /\ pc' = "rc_connect"
            /\ stack' = stack
            /\ pf_attempt' = pf_attempt
  /\ pf_ports' = pf_ports
  /\ UNCHANGED << suiteVars, connectorVars, port_arg, scopeVars, callVars, local_port, connection,
                  connection_pool, port_forward_process, registryVars,
                  conns, pools, phase, op, en_attempt, exit_log, result >>

\* connect_to_postgres, then closeall + create_connection_pool when a pool
\* exists.  self.connection is overwritten; nothing else is reset.
RcConnect ==
  /\ pc = "rc_connect"
  /\ \E conn_ok, pool_ok \in BOOLEAN :
       LET connected == /\ conn_ok
                        /\ Reachable(target_port)
                        /\ has_session
           has_pool  == connection_pool # None
           pooled    == pool_ok /\ Reachable(target_port)
           closes    == connected /\ has_pool /\ ~pools[connection_pool].closed
           replaced  == IF connection # None /\ conns[connection].open
                          THEN "open" ELSE "closed"
       IN
       /\ lease' = IF closes /\ lease = "held" THEN "lost" ELSE lease
       /\ IF ~connected
         THEN /\ Propagate("ConnectError")
              /\ UNCHANGED << conns, connection, pools, connection_pool,
                              session_prepared, txn >>
         ELSE /\ conns' = Opened(conns, NewConn(target_port))
              /\ connection' = Len(conns')
              /\ session_prepared' = {}
              /\ txn' = IF ~txn.open THEN txn
                        ELSE IF txn.conn = "primary"
                          THEN [txn EXCEPT !.conn = replaced, !.level = "fresh"]
                        ELSE [txn EXCEPT !.level = "fresh"]
              /\ IF ~has_pool
                   THEN /\ ReturnTo(Head(stack), "reconnect", "none")
                        /\ UNCHANGED << pools, connection_pool >>
                   ELSE IF pools[connection_pool].closed
                   THEN /\ Propagate("PoolError")
                        /\ UNCHANGED << pools, connection_pool >>
                   ELSE IF pooled
                   THEN /\ pools' = Pooled(closeall(pools, connection_pool),
                                           NewPool(target_port))
                        /\ connection_pool' = Len(pools')
                        /\ ReturnTo(Head(stack), "reconnect", "none")
                   ELSE /\ pools' = closeall(pools, connection_pool)
                        /\ connection_pool' = connection_pool
                        /\ Propagate("PoolCreateError")
  /\ UNCHANGED << suiteVars, connectorVars, port_arg, callVars, local_port, port_forward_process,
                  prepared_statements, procs, pf_attempt, pf_ports, en_attempt,
                  exit_log >>

\* ---- run_query ----
is_modifying(q) == q.qtype \in {"delete", "insert", "update"}

\* cursor.description after executing q
has_description(q) == q.qtype = "select" \/ q.returning

\* fetch == 'one' answered with the whole list
fetch_result_all(fetch, n) ==
  [kind |-> "list", rows |-> [k \in 1..n |-> k]]

\* fetchone() mapped, or None when there is no row; else fetchall() mapped
fetch_result(fetch, n) ==
  IF fetch = "one"
    THEN IF n > 0 THEN [kind |-> "mapping", rows |-> << 1 >>]
                  ELSE [kind |-> "None", rows |-> << >>]
    ELSE [kind |-> "list", rows |-> [k \in 1..n |-> k]]

\* The cursor holds n rows and run_query fetches them in mode fetch.
Fetched(r, fetch, n) ==
  [r EXCEPT !.fetch = fetch, !.produced = n,
            !.returned = fetch_result(fetch, n)]

\* statement_name = f"stmt_{hash(query)}"
statement_name(q) == q.text

\* params and isinstance(params, list) and len(params) > 10, for INSERT..VALUES
is_bulk(c) ==
  c.q.qtype = "insert" /\ c.q.values /\ c.nparams > BulkThreshold

\* the path taken when the batch redirect does not return
route(c) ==
  IF c.use_prepared /\ c.nparams # NoParams THEN "ps_run" ELSE "rq_loop"

path_of(label) == IF label = "ps_run" THEN "prepared" ELSE "standard"

ExecOutcomes ==
  {"ok", "deadlock", "failed_tx", "conn_failure", "operational", "other"}

\* a handler that catches every exception
is_transient_any(e) == e # "ok"

\* the classes the retry loop catches
is_transient(e) ==
  e \in {"deadlock", "failed_tx", "conn_failure", "operational"}

\* isinstance(e, (OperationalError, ConnectionFailure)); psycopg2 derives
\* DeadlockDetected and ConnectionFailure from OperationalError, and
\* InFailedSqlTransaction from InternalError.
is_connection_class(e) ==
  e \in {"deadlock", "conn_failure", "operational"}

\* errors after which psycopg2 may mark the connection closed
may_break(e) == e \in {"conn_failure", "operational"}

\* time.sleep(0.2 * (2 ** attempt)), in units of 0.2 s
backoff(attempt) == 2 ^ attempt

\* run_query called with one of `calls` by the caller, who makes at most
\* `limit` calls
RqCall(calls, limit) ==
  /\ pc = "idle"
  /\ phase = "active"
  /\ ops < limit
  /\ ops' = ops + 1
  /\ \E c \in calls : rq' = [NoQuery EXCEPT !.call = c]
  /\ op' = "run_query"
  /\ result' = NoResult
  /\ bi' = bi
  /\ db' = db
  /\ IF connection = None \/ ~conns[connection].open
       THEN pc' = "rc_start" /\ stack' = << "rq_dispatch", "top" >>
       ELSE pc' = "rq_dispatch" /\ stack' = << "top" >>
  /\ UNCHANGED << suiteVars, is_ci, max_retries, port_arg, scopeVars, local_port, connection, connection_pool,
                  port_forward_process, registryVars, conns, pools,
                  procs, phase, pf_attempt, pf_ports, en_attempt, exit_log >>

\* Between the entry and the exit of a get_connection() or transaction()
\* scope the caller runs statements of the standard path and reconnect().
ScopedCalls == IF InScope THEN StandardCalls ELSE RqCalls

RqStart == RqCall(ScopedCalls, MaxOps)

\* Bulk redirect to batch_insert, else the prepared or the standard path.
RqDispatch ==
  /\ pc = "rq_dispatch"
  /\ IF is_bulk(rq.call) /\ rq.call.parsable
       THEN /\ pc' = "bi_loop"
            /\ stack' = << "rq_batch" >> \o stack
            /\ rq' = [rq EXCEPT !.path = "batch"]
            /\ bi' = [NoBatch EXCEPT !.n = rq.call.nparams,
                                     !.b = DefaultBatchSize]
       ELSE /\ pc' = route(rq.call)
            /\ stack' = stack
            /\ rq' = [rq EXCEPT !.path = path_of(route(rq.call))]
            /\ bi' = bi
  /\ UNCHANGED << suiteVars, connectorVars, port_arg, scopeVars, db, local_port, connection, connection_pool,
                  port_forward_process, registryVars, conns, pools,
                  procs, phase, op, pf_attempt, pf_ports, en_attempt, exit_log, result >>

\* One pass of the standard path's retry loop.
RqAttempt ==
  /\ pc = "rq_loop"
  /\ rq.attempt < rq.call.retries
  /\ \E e \in ExecOutcomes, broken \in BOOLEAN :
       LET tried == [rq EXCEPT !.attempts = @ + 1,
                               !.saw_other = @ \/ e = "other"]
           slept == [tried EXCEPT !.attempt = @ + 1,
                                  !.sleeps = Append(@, backoff(rq.attempt))]
       IN
       /\ broken => may_break(e)
       /\ IF e = "ok"
            THEN \* break; commit and return None, or fetch
                 /\ IF is_modifying(rq.call.q) \/ ~has_description(rq.call.q)
                      THEN /\ rq' = tried
                           /\ db' = [db EXCEPT !.commits = @ + 1]
                           /\ ReturnTo(Head(stack), "run_query", "None")
                      ELSE /\ \E fetch \in FetchModes, n \in 0..MaxFetchRows :
                                rq' = Fetched(tried, fetch, n)
                           /\ db' = db
                           /\ ReturnTo(Head(stack), "run_query", "rows")
                 /\ conns' = conns
            ELSE IF ~is_transient(e)
            THEN \* not caught: leaves run_query through finally
                 /\ rq' = tried
                 /\ Propagate(e)
                 /\ UNCHANGED << db, conns >>
            ELSE IF broken
            THEN \* rollback() on a closed connection raises InterfaceError
                 /\ rq' = tried
                 /\ conns' = close(conns, connection)
                 /\ Propagate("InterfaceError")
                 /\ db' = db
            ELSE /\ db' = [db EXCEPT !.rollbacks = @ + 1]
                 /\ conns' = conns
                 /\ IF /\ is_connection_class(e)
                       /\ rq.attempt < rq.call.retries - 1
                      THEN /\ rq' = [slept EXCEPT !.loop_reconnects = @ + 1]
                           /\ pc' = "rc_start"
                           /\ stack' = << "rq_loop" >> \o stack
                      ELSE /\ rq' = slept
                           /\ pc' = pc
                           /\ stack' = stack
                 /\ UNCHANGED << op, result, phase >>
  /\ UNCHANGED << suiteVars, connectorVars, port_arg, scopeVars, bi, local_port, connection, connection_pool,
                  port_forward_process, registryVars, pools, procs,
                  pf_attempt, pf_ports, en_attempt, exit_log >>

\* for ... else: every attempt failed
RqExhausted ==
  /\ pc = "rq_loop"
  /\ rq.attempt >= rq.call.retries
  /\ Propagate("QueryFailed")
  /\ UNCHANGED << suiteVars, connectorVars, port_arg, scopeVars, callVars, local_port, connection,
                  connection_pool, port_forward_process, registryVars,
                  conns, pools, procs, pf_attempt, pf_ports, en_attempt, exit_log >>

\* ---- execute_prepared_statement ----
\* PREPARE when the name is not in the registry, then EXECUTE.  The server
\* keeps its own set of names per session: PREPARE of a name it has fails,
\* EXECUTE of a name it lacks fails.
PsRun ==
  /\ pc = "ps_run"
  /\ \E prep_ok, exec_ok \in BOOLEAN :
       LET name     == statement_name(rq.call.q)
           ran      == [rq EXCEPT !.prepares = IF name \in prepared_statements
                                                THEN @ ELSE @ + 1,
                                  !.executes = @ + 1]
           need     == name \notin prepared_statements
           prepared == prep_ok /\ name \notin session_prepared
           server   == IF need
                         THEN session_prepared \cup {name}
                         ELSE session_prepared
           executed == exec_ok /\ name \in server
       IN
       IF need /\ ~prepared
         THEN /\ rq' = [rq EXCEPT !.prepares = @ + 1]
              /\ db' = [db EXCEPT !.rollbacks = @ + 1]
              /\ prepared_statements' = prepared_statements \ {name}
              /\ session_prepared' = session_prepared
              /\ Propagate("PrepareError")
         ELSE /\ session_prepared' = server
              /\ IF ~executed
                   THEN /\ rq' = ran
                        /\ db' = [db EXCEPT !.rollbacks = @ + 1]
                        /\ prepared_statements' = prepared_statements \ {name}
                        /\ Propagate("ExecuteError")
                   ELSE /\ prepared_statements' = prepared_statements \cup {name}
                        /\ IF ~has_description(rq.call.q)
                             THEN /\ rq' = ran
                                  /\ db' = [db EXCEPT !.commits = @ + 1]
                                  /\ ReturnTo(Head(stack), "run_query", "None")
                             ELSE /\ \E fetch \in FetchModes,
                                        n \in 0..MaxFetchRows :
                                       rq' = Fetched(ran, fetch, n)
                                  /\ db' = db
                                  /\ ReturnTo(Head(stack), "run_query", "rows")
  /\ UNCHANGED << suiteVars, connectorVars, port_arg, scopeVars, bi, local_port, connection, connection_pool,
                  port_forward_process, conns, pools, procs, pf_attempt, pf_ports,
                  en_attempt, exit_log >>

\* ---- batch_insert ----
Min(a, b) == IF a < b THEN a ELSE b

\* values_list[i:i + batch_size - 1]: a slice one row short
batch_slice_short(i, b, n) == << i + 1, Min(i + b - 1, n) >>

\* values_list[i:i + batch_size], as the first and last row number (from 1)
batch_slice(i, b, n) == << i + 1, Min(i + b, n) >>

BatchInsertCall ==
  /\ pc = "idle"
  /\ phase = "active"
  /\ ~InScope
  /\ ops < MaxOps
  /\ ops' = ops + 1
  /\ \E n \in 0..MaxRows, b \in 1..MaxBatch :
       /\ bi' = [NoBatch EXCEPT !.n = n, !.b = b]
       /\ IF n = 0
            THEN \* if not values_list: return True
                 /\ pc' = "done"
                 /\ op' = "none"
                 /\ stack' = << >>
                 /\ result' = Ok("batch_insert", "True")
            ELSE IF connection = None \/ ~conns[connection].open
            THEN \* self.connection.cursor() raises
                 /\ pc' = "done"
                 /\ op' = "none"
                 /\ stack' = << >>
                 /\ result' = Raised("batch_insert", "InterfaceError")
            ELSE /\ pc' = "bi_loop"
                 /\ op' = "batch_insert"
                 /\ stack' = << "top" >>
                 /\ result' = NoResult
  /\ rq' = rq
  /\ db' = db
  /\ UNCHANGED << suiteVars, is_ci, max_retries, port_arg, scopeVars, local_port, connection, connection_pool,
                  port_forward_process, registryVars, conns, pools,
                  procs, phase, pf_attempt, pf_ports, en_attempt, exit_log >>

\* One chunk: executemany then commit; any failure rolls back and raises.
\* Inside run_query the redirect's handler catches it and falls through.
BiChunk ==
  /\ pc = "bi_loop"
  /\ bi.i < bi.n
  /\ \E chunk_ok \in BOOLEAN :
       LET batch == batch_slice(bi.i, bi.b, bi.n) IN
       IF chunk_ok
         THEN /\ bi' = [bi EXCEPT !.executed = Append(@, batch),
                                  !.committed = Append(@, batch),
                                  !.i = @ + bi.b]
              /\ db' = [db EXCEPT !.commits = @ + 1]
              /\ UNCHANGED << pc, stack, op, result, phase, rq >>
         ELSE /\ bi' = [bi EXCEPT !.executed = Append(@, batch),
                                  !.rolled_back = Append(@, batch)]
              /\ db' = [db EXCEPT !.rollbacks = @ + 1]
              /\ IF Head(stack) = "rq_batch"
                   THEN /\ pc' = route(rq.call)
                        /\ stack' = Tail(stack)
                        /\ rq' = [rq EXCEPT !.path = path_of(route(rq.call))]
                        /\ UNCHANGED << op, result, phase >>
                   ELSE /\ Propagate("BatchError")
                        /\ rq' = rq
  /\ UNCHANGED << suiteVars, connectorVars, port_arg, scopeVars, local_port, connection, connection_pool,
                  port_forward_process, registryVars, conns, pools,
                  procs, pf_attempt, pf_ports, en_attempt, exit_log >>

\* every chunk committed: return True (run_query returns it unchanged)
BiDone ==
  /\ pc = "bi_loop"
  /\ bi.i >= bi.n
  /\ pc' = "done"
  /\ stack' = << >>
  /\ op' = "none"
  /\ result' = Ok(op, "True")
  /\ UNCHANGED << suiteVars, connectorVars, port_arg, scopeVars, callVars, local_port, connection,
                  connection_pool, port_forward_process, registryVars,
                  conns, pools, procs, phase, pf_attempt, pf_ports, en_attempt,
                  exit_log >>

\* ---- get_connection ----
\* Up to the yield: create the pool when the handle is empty, then getconn().
\* The caller holds one pooled connection at a time and makes its calls from
\* inside the scope.
GetConnection ==
  /\ pc = "idle"
  /\ phase = "active"
  /\ ~InScope
  /\ ops < MaxOps
  /\ ops' = ops + 1
  /\ pc' = "done"
  /\ \E pool_ok \in BOOLEAN :
       IF connection_pool = None
         THEN IF pool_ok /\ Reachable(target_port)
                THEN /\ pools' = Pooled(pools, NewPool(target_port))
                     /\ connection_pool' = Len(pools')
                     /\ lease' = "held"
                     /\ result' = Ok("get_connection", "conn")
                ELSE /\ result' = Raised("get_connection", "PoolCreateError")
                     /\ UNCHANGED << pools, connection_pool, lease >>
         ELSE /\ UNCHANGED << pools, connection_pool >>
              /\ IF pools[connection_pool].closed
                   THEN /\ result' = Raised("get_connection", "PoolError")
                        /\ lease' = lease
                   ELSE /\ result' = Ok("get_connection", "conn")
                        /\ lease' = "held"
  /\ UNCHANGED << suiteVars, is_ci, max_retries, port_arg, txn, callVars,
                  local_port, connection, port_forward_process, registryVars,
                  conns, procs, phase, op, stack, pf_attempt, pf_ports, en_attempt,
                  exit_log >>

\* The finally block: self.connection_pool.putconn(conn), on whatever pool
\* the handle names by now.  putconn raises PoolError on a closed pool and on
\* a connection the pool did not hand out; that error replaces the caller's.
PutConnection ==
  /\ pc = "idle"
  /\ lease # "none"
  /\ pc' = "done"
  /\ lease' = "none"
  /\ \E block_raised \in BOOLEAN :
       result' = IF lease = "lost" \/ pools[connection_pool].closed
                   THEN Raised("put_connection", "PoolError")
                 ELSE IF block_raised
                   THEN Raised("put_connection", "CallerError")
                 ELSE Ok("put_connection", "none")
  /\ UNCHANGED << suiteVars, connectorVars, port_arg, txn, callVars, local_port,
                  connection, connection_pool, port_forward_process,
                  registryVars, conns, pools, procs, phase, op, stack,
                  pf_attempt, pf_ports, en_attempt, exit_log >>

\* ---- transaction ----
\* Up to the yield: capture self.connection and its level, set READ COMMITTED.
TransactionEnter ==
  /\ pc = "idle"
  /\ phase = "active"
  /\ ~InScope
  /\ ops < MaxOps
  /\ ops' = ops + 1
  /\ pc' = "done"
  /\ IF connection = None
       THEN /\ result' = Raised("transaction", "AttributeError")
            /\ txn' = txn
       ELSE IF ~conns[connection].open
       THEN /\ result' = Raised("transaction", "InterfaceError")
            /\ txn' = txn
       ELSE /\ result' = Ok("transaction", "self")
            /\ txn' = [NoScope EXCEPT !.open = TRUE, !.conn = "primary",
                                      !.level = "read_committed"]
  /\ UNCHANGED << suiteVars, is_ci, max_retries, port_arg, lease, callVars, local_port, connection,
                  connection_pool, port_forward_process, registryVars, conns,
                  pools, procs, phase, op, stack, pf_attempt, pf_ports, en_attempt,
                  exit_log >>

\* After the yield: commit, or rollback and re-raise; finally restore the
\* level.  All three act on the captured conn; on a closed connection each
\* raises InterfaceError, and the one from the finally block is what the
\* caller gets.
TransactionExit ==
  /\ pc = "idle"
  /\ txn.open
  /\ pc' = "done"
  /\ \E block_raised, commit_ok \in BOOLEAN :
       LET usable    == IF txn.conn = "primary"
                          THEN conns[connection].open
                          ELSE txn.conn = "open"
           committed == ~block_raised /\ commit_ok
       IN
       /\ block_raised => commit_ok
       /\ IF ~usable
            THEN /\ txn' = [txn EXCEPT !.open = FALSE,
                                       !.block_raised = block_raised]
                 /\ result' = Raised("transaction_exit", "InterfaceError")
            ELSE /\ txn' = [txn EXCEPT !.open = FALSE,
                                       !.block_raised = block_raised,
                                       !.commits = IF committed THEN 1 ELSE 0,
                                       !.rollbacks = IF committed THEN 0 ELSE 1,
                                       !.restored = TRUE,
                                       !.level = IF txn.conn = "primary"
                                                   THEN "before" ELSE @]
                 /\ result' = IF committed
                                THEN Ok("transaction_exit", "none")
                              ELSE IF block_raised
                                THEN Raised("transaction_exit", "CallerError")
                              ELSE Raised("transaction_exit", "CommitError")
  /\ UNCHANGED << suiteVars, connectorVars, port_arg, lease, callVars, local_port, connection,
                  connection_pool, port_forward_process, registryVars, conns,
                  pools, procs, phase, op, stack, pf_attempt, pf_ports, en_attempt,
                  exit_log >>

\* ---- the caller ----
\* The caller has the outcome of the operation and goes on; the records kept
\* about the finished call are dropped.
Resume ==
  /\ pc = "done"
  /\ pc' = "idle"
  /\ result' = NoResult
  /\ rq' = NoQuery
  /\ bi' = NoBatch
  /\ db' = NoTx
  /\ exit_log' = << >>
  /\ pf_attempt' = 0
  /\ pf_ports' = << >>
  /\ en_attempt' = 0
  /\ txn' = IF txn.open THEN txn ELSE NoScope
  /\ port_arg' = IF phase = "new" THEN port_arg ELSE Forgotten
  /\ UNCHANGED << suiteVars, connectorVars, lease, local_port,
                  connection, connection_pool, port_forward_process,
                  registryVars, conns, pools, procs, phase, op, stack >>

\* ---- environment ----
\* The tunnel is unreliable: a live port-forward process may exit by itself.
ProcDies ==
  /\ \E i \in AliveProcs : procs' = terminate(procs, i)
  /\ UNCHANGED << suiteVars, connectorVars, port_arg, scopeVars, callVars, local_port, connection, connection_pool,
                  port_forward_process, registryVars, conns, pools,
                  phase, op, pc, stack, pf_attempt, pf_ports, en_attempt, exit_log,
                  result >>

\* The replaced connection a running transaction() still holds in its local
\* conn: one of the open connections self.connection no longer names.
CapturedConns ==
  IF txn.open /\ txn.conn = "open" THEN {"conn"} ELSE {}

\* self.connection = self.connect_to_postgres() drops the last reference to
\* the connection it replaces without closing it.  When the runtime destroys
\* the object, and with it the server session, is not fixed by the language:
\* it may happen at any later moment or not at all.
Collect ==
  /\ \E i \in OpenConns \ {connection} :
       /\ Cardinality(OpenConns \ {connection}) > Cardinality(CapturedConns)
       /\ conns' = SubSeq(conns, 1, i - 1) \o SubSeq(conns, i + 1, Len(conns))
       /\ connection' = IF connection > i THEN connection - 1 ELSE connection
  /\ UNCHANGED << suiteVars, connectorVars, port_arg, scopeVars, callVars, local_port, connection_pool,
                  port_forward_process, registryVars, pools, procs,
                  phase, op, pc, stack, pf_attempt, pf_ports, en_attempt, exit_log,
                  result >>

\* ======================= fixtures =======================
\* create_owner and delete_owner of one test.  generate_owner_insert_query
\* makes a fresh owner_object_id per call: the id is the number of the call.
\* db_conn.run_query is the connector above; here only its outcome matters.
MaxFactoryCalls == 3

SubjectTypes == {"individual", "legal", "dp"}

\* The connector the fixtures borrow stays as constructed.
Parked ==
  /\ InitConnector
  /\ is_ci
  /\ max_retries = MaxRetriesBound
  /\ port_arg = None
  /\ \A p \in Ports : local_port <= p

\* Both fixtures are set up: _created_owner_id = None, _owner_id = None.
InitFixtures ==
  /\ Parked
  /\ fx = [NoFixture EXCEPT !.stage = "test"]
  /\ api = NoRequest
  /\ esc = NoEscape

\* create_owner's factory(subject_type): 'dp' only selects; otherwise the
\* id is stored in _created_owner_id and then the INSERT is run.
FxFactory ==
  /\ fx.stage = "test"
  /\ fx.calls < MaxFactoryCalls
  /\ \E subject_type \in SubjectTypes, query_ok \in BOOLEAN :
       LET id == fx.calls + 1 IN
       fx' = IF subject_type = "dp"
               THEN [fx EXCEPT !.calls = id,
                               !.last = IF query_ok THEN "rows" ELSE "raised"]
               ELSE [fx EXCEPT !.calls = id,
                               !.created = id,
                               !.inserted = IF query_ok THEN @ \cup {id} ELSE @,
                               !.last = IF query_ok THEN "body" ELSE "raised"]
  /\ UNCHANGED << vars_connector, api, esc >>

\* The test function is over, passed or failed: pytest resumes the fixture
\* generators in reverse order of setup, create_owner first.
FxTestEnds ==
  /\ fx.stage = "test"
  /\ fx' = [fx EXCEPT !.stage = "teardown_create_owner"]
  /\ UNCHANGED << vars_connector, api, esc >>

\* After the yield of create_owner: delete_owner(_created_owner_id), which
\* is delete_owner's factory: _owner_id = owner_id.
FxCreateOwnerTeardown ==
  /\ fx.stage = "teardown_create_owner"
  /\ fx' = [fx EXCEPT !.owner = fx.created, !.stage = "teardown_delete_owner"]
  /\ UNCHANGED << vars_connector, api, esc >>

\* After the yield of delete_owner: if _owner_id: run the two DELETEs for
\* that id.
FxDeleteOwnerTeardown ==
  /\ fx.stage = "teardown_delete_owner"
  /\ fx' = [fx EXCEPT !.deleted = IF fx.owner # None THEN @ \cup {fx.owner} ELSE @,
                      !.stage = "finished"]
  /\ UNCHANGED << vars_connector, api, esc >>

\* ======================= BaseApi.request =======================
\* One call of request(method, url, headers, **kwargs).  Of kwargs only
\* 'data' and 'response_code' are followed; a payload is known by its type.
Methods == {"GET", "POST", "PUT", "PATCH", "DELETE"}

BodyMethods == {"POST", "PUT", "PATCH"}

Payloads == {"absent", "dict", "list", "str"}

ExpectedCodes == {None, 200, 404}

StatusCodes == {200, 201, 404}

InitApi ==
  /\ Parked
  /\ fx = NoFixture
  /\ esc = NoEscape
  /\ \E method \in Methods, data \in Payloads, response_code \in ExpectedCodes :
       api = [NoRequest EXCEPT !.stage = "called", !.method = method,
                               !.data = data, !.response_code = response_code,
                               !.body = data]

\* The block under `if method in ("POST", "PUT", "PATCH") and 'data' in
\* kwargs`: data is popped; a dict or list goes under 'json' and 'data' is
\* popped once more, from a dict that no longer has the key.
ApiConvert ==
  /\ api.stage = "called"
  /\ api' = IF api.method \in BodyMethods /\ api.data # "absent"
              THEN IF api.data \in {"dict", "list"}
                     THEN [api EXCEPT !.body = "absent", !.json = api.data,
                                      !.stage = "raised", !.exc = "KeyError"]
                     ELSE [api EXCEPT !.body = "absent", !.stage = "converted"]
              ELSE [api EXCEPT !.stage = "converted"]
  /\ UNCHANGED << vars_connector, fx, esc >>

\* self.client.request(method, full_url, headers=..., **kwargs): the server
\* answers with some status, or the transport raises.
ApiSend ==
  /\ api.stage = "converted"
  /\ \/ \E status \in StatusCodes :
          api' = [api EXCEPT !.stage = "responded", !.status = status]
     \/ api' = [api EXCEPT !.stage = "raised", !.exc = "TransportError",
                           !.status = -1]
  /\ UNCHANGED << vars_connector, fx, esc >>

\* check_status_code when response_code is truthy, check_status_code_success
\* (a 2xx status) otherwise; then return response.
ApiCheck ==
  /\ api.stage = "responded"
  /\ LET passed == IF api.response_code # None
                     THEN api.status = api.response_code
                     ELSE api.status \in 200..299
     IN api' = IF passed THEN [api EXCEPT !.stage = "returned"]
                         ELSE [api EXCEPT !.stage = "raised", !.exc = "AssertionError"]
  /\ UNCHANGED << vars_connector, fx, esc >>

\* ======================= escape_single_quotes =======================
\* A statement text is a sequence of characters; what matters of a
\* character is whether it is the single quote, matches \w, or neither.
MaxTextLen == 5

Quote == "'"

WordChars == {"a", "1"}

Chars == WordChars \cup {Quote, " "}

Texts == UNION { [1..n -> Chars] : n \in 0..MaxTextLen }

\* (?<=\w)'(?=\w) at position i: the lookbehind and the lookahead read the
\* text being searched and consume nothing.
match_at(text, i) ==
  /\ text[i] = Quote
  /\ i > 1 /\ text[i - 1] \in WordChars
  /\ i < Len(text) /\ text[i + 1] \in WordChars

\* re.sub from position i on: every match is replaced by ''.
RECURSIVE sub_from(_, _)
sub_from(text, i) ==
  IF i > Len(text) THEN << >>
  ELSE (IF match_at(text, i) THEN << Quote, Quote >> ELSE << text[i] >>)
         \o sub_from(text, i + 1)

escape_single_quotes_behind(text) ==
  LET RECURSIVE behind_from(_)
      behind_from(i) ==
        IF i > Len(text) THEN << >>
        ELSE (IF text[i] = Quote /\ i > 1 /\ text[i - 1] \in WordChars
                THEN << Quote, Quote >> ELSE << text[i] >>)
               \o behind_from(i + 1)
  IN behind_from(1)

escape_single_quotes(text) == sub_from(text, 1)

InitEscape ==
  /\ Parked
  /\ fx = NoFixture
  /\ api = NoRequest
  /\ \E text \in Texts : esc = [NoEscape EXCEPT !.stage = "given", !.text = text]

\* run_query: query = escape_single_quotes(query)
EscRunQuery ==
  /\ esc.stage = "given"
  /\ esc' = [esc EXCEPT !.stage = "escaped", !.out = escape_single_quotes(esc.text)]
  /\ UNCHANGED << vars_connector, fx, api >>

\* The escaped text is given to run_query once more.
EscRunQueryAgain ==
  /\ esc.stage = "escaped"
  /\ esc' = [esc EXCEPT !.stage = "twice", !.again = escape_single_quotes(esc.out)]
  /\ UNCHANGED << vars_connector, fx, api >>

\* ======================= claims =======================
Returned(o) == pc = "done" /\ result.op = o

PrimaryClosed == connection = None \/ ~conns[connection].open

TunnelStopped ==
  port_forward_process = None \/ ~procs[port_forward_process].alive

\* C1: in every reachable state at most one port-forward process started by
\* the connector is alive and at most one primary connection opened by it is
\* open.
C1_AtMostOneTunnelAndConnection ==
  Cardinality(AliveProcs) <= 1 /\ Cardinality(OpenConns) <= 1

\* C2: a reconnect that completes (called directly, at the entry of
\* run_query, or from the retry loop) leaves prepared_statements empty.
ReconnectCompletes ==
  /\ pc = "rc_connect"
  /\ pc' # "rc_connect"
  /\ ~(pc' = "done" /\ result'.status = "raised")

C2_RegistryEmptyAfterReconnect ==
  [][ReconnectCompletes => prepared_statements' = {}]_vars

\* C3: when __enter__ raises, no port-forward process, primary connection or
\* pool opened by the connector is left open.
C3_NothingLeftAfterFailedActivation ==
  (Returned("enter") /\ result.status = "raised")
    => (AliveProcs = {} /\ OpenConns = {} /\ OpenPools = {})

\* C4: __exit__ called right after a successful __enter__ returns normally and
\* leaves no port-forward process alive, no pool open and the primary
\* connection closed, in tunnelled and in direct mode.
C4_ActivateThenDeactivate ==
  (Returned("exit") /\ ops = 0)
    => /\ result.status = "ok"
       /\ AliveProcs = {}
       /\ OpenPools = {}
       /\ PrimaryClosed

C4_Witness ==
  /\ Returned("exit")
  /\ ops = 0
  /\ ~is_ci
  /\ exit_log = << "pool", "connection", "tunnel" >>

\* C5: when __exit__ ends, normally or by raising, the primary connection has
\* been closed and the tunnel terminated, whatever happened to the pool step.
C5_EveryCleanupStepAttempted ==
  Returned("exit") => (PrimaryClosed /\ (is_ci \/ TunnelStopped))

\* run_query left the standard path by an exception and no attempt raised an
\* error outside the transient classes
StandardTransientFailure ==
  /\ Returned("run_query")
  /\ rq.path = "standard"
  /\ result.status = "raised"
  /\ ~rq.saw_other

NonDecreasing(seq) ==
  \A i \in 1..(Len(seq) - 1) : seq[i] <= seq[i + 1]

\* C6: a standard-path statement whose every attempt raises a transient error
\* is executed exactly max_retries times, then the fatal execution error is
\* raised; the backoff delays are non-decreasing.
C6_ExactlyMaxRetriesThenFatal ==
  StandardTransientFailure
    => /\ result.exc = "QueryFailed"
       /\ rq.attempts = rq.call.retries
       /\ Len(rq.sleeps) = rq.call.retries
       /\ NonDecreasing(rq.sleeps)

\* C7: with max_retries >= 2 and only transient failures, the caller gets an
\* error only after max_retries execution attempts, also when the reconnect
\* triggered by a connection-class failure fails.
C7_NoErrorBeforeMaxRetries ==
  (StandardTransientFailure /\ rq.call.retries >= 2)
    => rq.attempts >= rq.call.retries

\* C8: an attempt that raises an error outside the transient classes ends the
\* call at once with that error: no backoff, reconnect or attempt follows it,
\* and when it is the first attempt it is the only one.
C8_NonTransientPropagatesAtOnce ==
  rq.saw_other
    => /\ pc = "done"
       /\ result = Raised("run_query", "other")
       /\ rq.attempts = Len(rq.sleeps) + 1
       /\ rq.attempt = Len(rq.sleeps)
       /\ rq.loop_reconnects <= Len(rq.sleeps)

C8_Witness ==
  /\ Returned("run_query")
  /\ result.exc = "other"
  /\ rq.call.retries >= 2
  /\ rq.attempts = 1
  /\ rq.sleeps = << >>

\* C9: a successful run_query of an INSERT, UPDATE or DELETE returns None and
\* has issued exactly one commit, on the standard, prepared and batch paths.
C9_ModifyingReturnsNoneOneCommit ==
  (Returned("run_query") /\ result.status = "ok" /\ is_modifying(rq.call.q))
    => (result.value = "None" /\ db.commits = 1)

\* C10: batch_insert of N >= 1 rows in batches of B >= 1 executes the chunks
\* of at most B consecutive rows in row order, ceil(N/B) of them when none
\* fails, and commits after each; when chunk k fails the chunks before it stay
\* committed, chunk k is rolled back, no later chunk is executed and a direct
\* caller gets the failure.
Ceil(n, b) == (n + b - 1) \div b

ExpectedChunk(k, n, b) == << (k - 1) * b + 1, Min(k * b, n) >>

Front(seq) == SubSeq(seq, 1, Len(seq) - 1)

C10_BatchChunking ==
  bi.n >= 1
    => /\ Len(bi.executed) <= Ceil(bi.n, bi.b)
       /\ \A k \in 1..Len(bi.executed) :
            bi.executed[k] = ExpectedChunk(k, bi.n, bi.b)
       /\ IF bi.rolled_back = << >>
            THEN /\ bi.committed = bi.executed
                 /\ db.rollbacks = 0
            ELSE /\ bi.committed = Front(bi.executed)
                 /\ bi.rolled_back = << bi.executed[Len(bi.executed)] >>
                 /\ pc # "bi_loop"
       /\ rq.path = "none" => db.commits = Len(bi.committed)
       /\ (Returned("batch_insert") /\ result.status = "ok")
            => (Len(bi.executed) = Ceil(bi.n, bi.b) /\ bi.rolled_back = << >>)
       /\ (Returned("batch_insert") /\ bi.rolled_back # << >>)
            => result = Raised("batch_insert", "BatchError")
       /\ (rq.path = "none" /\ bi.rolled_back # << >>)
            => Returned("batch_insert")

C10_Witness ==
  /\ Returned("batch_insert")
  /\ result.status = "raised"
  /\ bi.n = 4
  /\ bi.b = 2
  /\ bi.committed = << << 1, 2 >> >>
  /\ bi.rolled_back = << << 3, 4 >> >>

\* C11: the bulk redirect falls back to the standard or prepared path only
\* when the statement text cannot be parsed; a chunk that fails inside
\* batch_insert ends run_query with an error, and the statement is executed on
\* no other path afterwards.
C11_OnlyParseFailureFallsBack ==
  /\ (rq.path \in {"standard", "prepared"} /\ is_bulk(rq.call))
       => ~rq.call.parsable
  /\ (rq.call # NoCall /\ bi.rolled_back # << >>)
       => /\ Returned("run_query")
          /\ result.status = "raised"
          /\ rq.attempts = 0
          /\ rq.executes = 0

\* a step of execute_prepared_statement that sends PREPARE / EXECUTE
SendsPrepare == pc = "ps_run" /\ rq'.prepares > rq.prepares

SendsExecute == pc = "ps_run" /\ rq'.executes > rq.executes

\* C12: over any sequence of prepared-path calls PREPARE of a name is sent
\* only when the session of the current connection does not hold that name
\* yet, also after an earlier call for the statement failed, and every
\* prepared-path call sends one EXECUTE (none only when its PREPARE failed).
C12_PrepareOncePerConnection ==
  [][/\ SendsPrepare => statement_name(rq.call.q) \notin session_prepared
     /\ (pc = "ps_run" /\ pc' # "ps_run")
          => /\ rq'.executes <= 1
             /\ result'.status = "ok" => rq'.executes = 1]_vars

\* C13: EXECUTE of a name is sent only on a connection whose session holds
\* that name: after a reconnect the first prepared-path call for a statement
\* sends PREPARE on the new connection before its EXECUTE.
C13_ExecuteOnlyWherePrepared ==
  [][SendsExecute => statement_name(rq.call.q) \in session_prepared']_vars

\* C14: when a get_connection scope exits, normally or through an exception
\* of the caller, the connection goes back to the pool: the exit raises no
\* pool error and nothing stays checked out, also when a reconnect replaced
\* the pool inside the scope.
C14_ScopeReturnsConnection ==
  Returned("put_connection") => /\ result.exc # "PoolError"
                                /\ lease = "none"

\* C15: while a transaction() block is open the primary connection is at
\* read-committed isolation; a block that ends normally is committed, a block
\* that raises is rolled back, not committed, and the exception re-raised; in
\* both cases the connection has the isolation level it had before entry.
C15_TransactionScope ==
  /\ txn.open => txn.level = "read_committed"
  /\ Returned("transaction_exit") =>
       /\ txn.restored
       /\ txn.conn = "primary" /\ txn.level = "before"
       /\ IF txn.block_raised
            THEN /\ txn.rollbacks = 1 /\ txn.commits = 0
                 /\ result.exc = "CallerError"
            ELSE \/ txn.commits = 1 /\ txn.rollbacks = 0 /\ result.status = "ok"
                 \/ txn.commits = 0 /\ txn.rollbacks = 1
                      /\ result.exc = "CommitError"

\* The step on which the reconnect started by the retry loop hands control
\* back to the loop.
LoopReconnectReturns == pc = "rc_connect" /\ pc' = "rq_loop"

\* C16: after a connection-class failure of a standard-path attempt no further
\* attempt starts until reconnect has completed, and a completed reconnect has
\* restarted the tunnel, opened a new primary connection, recreated the pool
\* and emptied the prepared-statement registry; the next attempt then runs on
\* that new connection.
C16_ReconnectCompletesBeforeRetry ==
  [][/\ LoopReconnectReturns =>
          /\ ~is_ci => is_port_forwarding_running'
          /\ connection' \notin DOMAIN conns \/ ~conns[connection'].open
               \/ connection' # connection
          /\ conns'[connection'].open
          /\ connection_pool' # None => ~pools'[connection_pool'].closed
          /\ prepared_statements' = {}
     /\ (rq'.attempts > rq.attempts /\ rq.loop_reconnects > 0) =>
          /\ pc = "rq_loop"
          /\ conns[connection].open]_vars

\* The ports of a sequence are pairwise different.
Distinct(seq) ==
  \A i, j \in 1..Len(seq) : i # j => seq[i] # seq[j]

\* C17: when every port-forward process is found exited after the settle
\* wait, tunnel setup has spawned exactly max_retries processes, each on a
\* port different from those of the earlier attempts, and then fails fatally;
\* it never spawns more than max_retries.
C17_SpawnsOnFreshPorts ==
  /\ Len(pf_ports) <= max_retries
  /\ (pc = "done" /\ result.exc = "PortForwardFailed") =>
       /\ result.status = "raised"
       /\ Len(pf_ports) = max_retries
       /\ Distinct(pf_ports)

\* One pass of the activation loop, or its end without a pass.
EnterStep == pc = "en_loop" /\ en_attempt' # en_attempt

\* C18: activation attempts the connection at most max_retries times; in
\* tunnelled mode an attempt that finds the tunnel process dead fails without
\* connecting; the first attempt that establishes both the connection and the
\* pool ends the loop; when all max_retries attempts have failed activation
\* raises, so it returns normally only from an attempt that established both.
C18_ActivationRetries ==
  [][EnterStep =>
       /\ Len(conns') > Len(conns) => en_attempt <= max_retries
       /\ (~is_ci /\ ~is_port_forwarding_running) =>
            /\ conns' = conns /\ connection' = connection
            /\ result'.status # "ok"
       /\ connection_pool' # connection_pool =>
            pc' = "done" /\ result'.status = "ok"
       /\ pc' = "done" =>
            IF result'.status = "ok"
              THEN /\ connection' # None /\ conns'[connection'].open
                   /\ connection_pool' # None
                   /\ ~pools'[connection_pool'].closed
              ELSE en_attempt = max_retries]_vars

\* A step of the login loop of port_forward_postgres: an attempt, or its end.
LoginStep == pc = "pf_login" /\ (pc' # pc \/ pf_attempt' # pf_attempt)

\* C19: the cluster login is attempted at most max_retries times and stops at
\* the first success; when no attempt succeeds tunnel setup raises the login
\* failure and spawns no port-forward process; a port-forward process is
\* spawned only after a successful login.
C19_LoginBeforeSpawn ==
  [][/\ LoginStep =>
          /\ procs' = procs /\ pf_ports' = pf_ports
          /\ pc' = "pf_login" => pf_attempt' = pf_attempt + 1
                                   /\ pf_attempt <= max_retries
          /\ pc' = "pf_spawn" => pf_attempt <= max_retries
          /\ pc' \notin {"pf_login", "pf_spawn"} =>
               /\ pc' = "done" /\ result'.status = "raised"
               /\ result'.exc = "LoginFailed"
     /\ (pc' = "pf_spawn" /\ pc # "pf_spawn") => pc = "pf_login"
     /\ (pc' = "pf_login" /\ pc # "pf_login") => pc \in {"idle", "rc_start"}
     /\ Len(pf_ports') > Len(pf_ports) => pc = "pf_spawn"
     /\ (\E i \in 1..Len(procs') : procs'[i].alive /\ procs'[i].port # NoPort
           /\ \A j \in 1..Len(procs) : procs[j] # procs'[i]) => pc = "pf_spawn"]_vars

\* C20: in direct (CI) mode no operation runs the cluster login, spawns a
\* port-forward process or terminates one, and every primary connection and
\* pool is opened against the fixed port, never the local forwarding port.
C20_DirectModeNeverTunnels ==
  is_ci =>
    /\ procs = << >> /\ port_forward_process = None
    /\ pc \notin {"pf_login", "pf_spawn"}
    /\ pf_attempt = 0 /\ pf_ports = << >>
    /\ \A k \in 1..Len(exit_log) : exit_log[k] # "tunnel"
    /\ \A i \in OpenConns : conns[i].port \in {CIPort, NoPort}
    /\ connection # None /\ conns[connection].open =>
         conns[connection].port = CIPort
    /\ \A i \in OpenPools : pools[i].port = CIPort

\* direct mode: run_query reconnected from its retry loop and succeeded
C20_Witness ==
  /\ is_ci
  /\ Returned("run_query") /\ result.status = "ok"
  /\ rq.loop_reconnects > 0
  /\ conns[connection].port = CIPort
  /\ connection_pool # None /\ pools[connection_pool].port = CIPort

\* C21: a run_query that returns for a statement with a result description
\* that is not INSERT/UPDATE/DELETE gives, with fetch 'one', the mapping of
\* the first row or None when no row was produced, and with fetch 'all' a
\* list with one mapping per row produced, in order; on the standard and on
\* the prepared-statement path.
C21_FetchShape ==
  ( /\ Returned("run_query") /\ result.status = "ok"
    /\ has_description(rq.call.q) /\ ~is_modifying(rq.call.q) )
  => /\ rq.path \in {"standard", "prepared"}
     /\ rq.fetch \in FetchModes /\ rq.produced >= 0
     /\ rq.fetch = "one" =>
          IF rq.produced = 0
            THEN rq.returned = [kind |-> "None", rows |-> << >>]
            ELSE rq.returned = [kind |-> "mapping", rows |-> << 1 >>]
     /\ rq.fetch = "all" =>
          /\ rq.returned.kind = "list"
          /\ Len(rq.returned.rows) = rq.produced
          /\ \A k \in 1..rq.produced : rq.returned.rows[k] = k

\* the prepared-statement path fetched one row out of several
C21_Witness ==
  /\ Returned("run_query") /\ result.status = "ok"
  /\ rq.path = "prepared" /\ rq.call.q.qtype = "select"
  /\ rq.fetch = "one" /\ rq.produced >= 2
  /\ rq.returned.kind = "mapping"

\* C22: a local_port passed to the constructor stays the connector's port:
\* no random port replaces it, and after activation in tunnelled mode the
\* tunnel forwards it and the primary connection and the pool connect to it.
C22_GivenPortIsUsed ==
  port_arg \in Ports =>
    /\ local_port = port_arg
    /\ (Returned("enter") /\ result.status = "ok" /\ ~is_ci) =>
         /\ port_forward_process # None
         /\ procs[port_forward_process].alive =>
              procs[port_forward_process].port = port_arg
         /\ connection # None => conns[connection].port = port_arg
         /\ connection_pool # None => pools[connection_pool].port = port_arg

\* C23: a connector that has been constructed and not yet activated has
\* opened no socket, spawned no process and opened no database connection,
\* whatever the constructor's arguments, local_port omitted included.
C23_ConstructionIsOffline ==
  phase = "new" =>
    /\ constructor_sockets = 0
    /\ (pc = "idle" => procs = << >> /\ conns = << >> /\ pools = << >>)

\* C24: after the fixtures of a test have finished, a DELETE has been run
\* for each owner_object_id the create_owner factory inserted, also when the
\* factory was called more than once, and no DELETE has been run for an id
\* that was never inserted.
C24_EveryInsertedOwnerDeleted ==
  fx.stage = "finished" => fx.deleted = fx.inserted

NextFixtures ==
  \/ FxFactory
  \/ FxTestEnds
  \/ FxCreateOwnerTeardown
  \/ FxDeleteOwnerTeardown

SpecFixtures == InitFixtures /\ [][NextFixtures]_vars

\* C25: request with POST, PUT or PATCH and a data argument raises nothing
\* before the HTTP call is made, transmits the payload (a dict or list as
\* the JSON body, a string as the raw body), and returns the response only
\* after it passed the status check.
C25_PayloadTransmitted ==
  (api.method \in BodyMethods /\ api.data # "absent") =>
    /\ api.stage = "raised" => api.status # 0
    /\ api.status # 0 =>
         IF api.data = "str" THEN api.body = "str" /\ api.json = "absent"
                             ELSE api.json = api.data /\ api.body = "absent"
    /\ api.stage = "returned" =>
         IF api.response_code # None THEN api.status = api.response_code
                                     ELSE api.status \in 200..299

NextApi ==
  \/ ApiConvert
  \/ ApiSend
  \/ ApiCheck

SpecApi == InitApi /\ [][NextApi]_vars

\* The quotes of a text that stand between two word characters, and how
\* many of them stand before position i.
Embedded(text) ==
  { i \in 2..(Len(text) - 1) :
      text[i] = Quote /\ text[i - 1] \in WordChars /\ text[i + 1] \in WordChars }

EmbeddedBefore(text, i) == Cardinality({ j \in Embedded(text) : j < i })

\* C26: the escaping run_query applies doubles exactly the single quotes
\* that have a word character immediately before and immediately after
\* them and leaves every other character as it is, a quote next to a
\* non-word character or to the boundary of the text included; escaping the
\* escaped text once more changes nothing.
C26_EscapeDoublesEmbeddedQuotes ==
  /\ esc.stage \in {"escaped", "twice"} =>
       /\ Len(esc.out) = Len(esc.text) + Cardinality(Embedded(esc.text))
       /\ \A i \in 1..Len(esc.text) :
            LET k == i + EmbeddedBefore(esc.text, i) IN
            /\ esc.out[k] = esc.text[i]
            /\ i \in Embedded(esc.text) => esc.out[k + 1] = Quote
  /\ esc.stage = "twice" => esc.again = esc.out

\* A text with an embedded quote and a delimiting one, escaped twice.
C26_Witness ==
  /\ esc.stage = "twice"
  /\ Embedded(esc.text) # {}
  /\ \E i \in 1..Len(esc.text) : esc.text[i] = Quote /\ i \notin Embedded(esc.text)
  /\ esc.out # esc.text

NextEscape ==
  \/ EscRunQuery
  \/ EscRunQueryAgain

SpecEscape == InitEscape /\ [][NextEscape]_vars

\* C27: whenever activation returns without raising, the primary
\* connection is open and the connection pool exists, whatever max_retries
\* is and in both modes.
C27_ActivationReturnsConnected ==
  (Returned("enter") /\ result.status = "ok") =>
    /\ connection # None
    /\ conns[connection].open
    /\ connection_pool # None

\* C28: whenever no operation of the active connector is in progress, the
\* open primary connection and the open pool were opened against
\* the current target port and the live tunnel process forwards that port:
\* after activation, after a reconnect, and after a reconnect that failed
\* partway.
C28_HandlesOnCurrentPort ==
  (pc \in {"idle", "done"} /\ phase = "active") =>
    /\ ~PrimaryClosed => conns[connection].port = target_port
    /\ (connection_pool # None /\ ~pools[connection_pool].closed) =>
         pools[connection_pool].port = target_port
    /\ (~is_ci /\ ~TunnelStopped) => procs[port_forward_process].port = local_port

\* C29: between the entry of a transaction() block and its exit no commit
\* is issued on the primary connection by a run_query call made inside the
\* block, so that nothing a block did stays committed when it exits by an
\* exception.
C29_NoCommitInsideBlock ==
  [][(txn.open /\ txn'.open) => db'.commits <= db.commits]_vars

\* A step in which a statement of run_query is executed, fails, and the
\* error leaves run_query (the rollback itself having been possible).
StatementRaises ==
  /\ pc' = "done" /\ result'.op = "run_query" /\ result'.status = "raised"
  /\ result'.exc # "InterfaceError"
  /\ \/ rq'.attempts > rq.attempts
     \/ rq'.prepares > rq.prepares
     \/ rq'.executes > rq.executes

\* C30: whenever run_query exits by raising because a statement failed, on
\* the standard and on the prepared path and for any class of error, a
\* rollback has been issued on the primary connection after the failing
\* statement.
C30_RollbackBeforeRaise ==
  [][StatementRaises => db'.rollbacks > db.rollbacks]_vars

Next ==
  \/ EnterStart
  \/ PfLogin
  \/ PfLoginFailed
  \/ PfSpawn
  \/ PfSpawnFailed
  \/ EnterAttempt
  \/ EnterNoAttempt
  \/ ExitClosePool
  \/ ExitCloseConnection
  \/ ExitTerminate
  \/ ReconnectCall
  \/ RcStart
  \/ RcConnect
  \/ RqStart
  \/ RqDispatch
  \/ RqAttempt
  \/ RqExhausted
  \/ PsRun
  \/ BatchInsertCall
  \/ BiChunk
  \/ BiDone
  \/ GetConnection
  \/ PutConnection
  \/ TransactionEnter
  \/ TransactionExit
  \/ Resume
  \/ ProcDies
  \/ Collect

Spec == Init /\ [][Next]_vars

\* ---- the prepared-statement path over longer sequences of calls ----
\* The caller only calls reconnect() and run_query(use_prepared=True, params).
PreparedReconnect == ReconnectWithin(MaxPreparedOps)

PreparedStart == RqCall(PreparedCalls, MaxPreparedOps)

NextPrepared ==
  \/ EnterStart
  \/ PfLogin
  \/ PfLoginFailed
  \/ PfSpawn
  \/ PfSpawnFailed
  \/ EnterAttempt
  \/ EnterNoAttempt
  \/ ExitClosePool
  \/ ExitCloseConnection
  \/ ExitTerminate
  \/ PreparedReconnect
  \/ RcStart
  \/ RcConnect
  \/ PreparedStart
  \/ RqDispatch
  \/ PsRun
  \/ Resume
  \/ ProcDies
  \/ Collect

SpecPrepared == Init /\ [][NextPrepared]_vars

\* ---- fetching results ----
\* The caller only calls run_query with a statement that yields rows.
FetchStart == RqCall(FetchCalls, MaxOps)

NextFetch ==
  \/ EnterStart
  \/ PfLogin
  \/ PfLoginFailed
  \/ PfSpawn
  \/ PfSpawnFailed
  \/ EnterAttempt
  \/ EnterNoAttempt
  \/ ExitClosePool
  \/ ExitCloseConnection
  \/ ExitTerminate
  \/ RcStart
  \/ RcConnect
  \/ FetchStart
  \/ RqDispatch
  \/ RqAttempt
  \/ RqExhausted
  \/ PsRun
  \/ Resume
  \/ ProcDies
  \/ Collect

SpecFetch == Init /\ [][NextFetch]_vars

====
